---- MODULE Spec2Model ----
(***************************************************************************)
(* Model of news_scraper.py: get_news_releases and load-time selector      *)
(* table.  Texts (date text, titles, URLs, selector strings) are sequences *)
(* of one-character strings; the kanji date markers are written "nen",     *)
(* "gatsu", "nichi" (one token each, standing for one character).          *)
(***************************************************************************)
EXTENDS Integers, Sequences, FiniteSets, TLC

\* ------------------------------------------------------------------ text

DIGITS == <<"0", "1", "2", "3", "4", "5", "6", "7", "8", "9">>

Digit == {DIGITS[k] : k \in 1..Len(DIGITS)}

UPPER == <<"A", "B", "C", "D", "E", "F", "G", "H", "I", "J", "K", "L", "M",
           "N", "O", "P", "Q", "R", "S", "T", "U", "V", "W", "X", "Y", "Z">>

LOWER == <<"a", "b", "c", "d", "e", "f", "g", "h", "i", "j", "k", "l", "m",
           "n", "o", "p", "q", "r", "s", "t", "u", "v", "w", "x", "y", "z">>

Alpha == {UPPER[k] : k \in 1..Len(UPPER)} \cup {LOWER[k] : k \in 1..Len(LOWER)}

Space == {" "}

\* str.lower() / str.upper() of one character
LowerChar(c) ==
    IF \E k \in 1..Len(UPPER) : UPPER[k] = c
    THEN LOWER[CHOOSE k \in 1..Len(UPPER) : UPPER[k] = c]
    ELSE c

UpperChar(c) ==
    IF \E k \in 1..Len(LOWER) : LOWER[k] = c
    THEN UPPER[CHOOSE k \in 1..Len(LOWER) : LOWER[k] = c]
    ELSE c

LowerStr(s) == [k \in 1..Len(s) |-> LowerChar(s[k])]

\* str.capitalize(): first character upper-cased, the rest lower-cased
Capitalize(s) == [k \in 1..Len(s) |-> IF k = 1 THEN UpperChar(s[k]) ELSE LowerChar(s[k])]

DigitVal(c) == (CHOOSE k \in 1..Len(DIGITS) : DIGITS[k] = c) - 1

\* int(s) of a string of decimal digits
RECURSIVE IntOf(_)
IntOf(s) ==
    IF Len(s) = 0 THEN 0
    ELSE 10 * IntOf(SubSeq(s, 1, Len(s) - 1)) + DigitVal(s[Len(s)])

\* str(n) of a natural number
RECURSIVE StrOf(_)
StrOf(n) ==
    IF n < 10 THEN <<DIGITS[n + 1]>>
    ELSE StrOf(n \div 10) \o <<DIGITS[(n % 10) + 1]>>

\* n written with at least w digits (the %02d / %04d of a date text)
RECURSIVE Pad(_, _)
Pad(s, w) == IF Len(s) >= w THEN s ELSE Pad(<<"0">> \o s, w)

\* s.startswith(p)
StartsWith(s, p) == Len(s) >= Len(p) /\ SubSeq(s, 1, Len(p)) = p

\* sub in s
Contains(s, sub) ==
    \E k \in 1..(Len(s) - Len(sub) + 1) : SubSeq(s, k, k + Len(sub) - 1) = sub

\* -------------------------------------------------------- regex (re.search)
\* A pattern is a sequence of atoms [cls, lo, hi]: between lo and hi
\* characters of the class cls, greedy, hi = -1 for unbounded.

Atom(cls, lo, hi) == [cls |-> cls, lo |-> lo, hi |-> hi]

Lit(c) == Atom({c}, 1, 1)

NoMatch == [ok |-> FALSE, start |-> 0, ends |-> <<>>]

\* how many characters of cls follow position pos (0-based count consumed), at most cap
RECURSIVE RunLen(_, _, _, _)
RunLen(cls, txt, pos, cap) ==
    IF cap = 0 \/ pos > Len(txt) \/ txt[pos] \notin cls THEN 0
    ELSE 1 + RunLen(cls, txt, pos + 1, cap - 1)

\* match atoms k.. of pat at position pos, repeating atom k n times first,
\* then fewer (backtracking); the result lists the end position of each atom
RECURSIVE MatchFrom(_, _, _, _)
RECURSIVE TryCount(_, _, _, _, _)
MatchFrom(pat, txt, k, pos) ==
    IF k > Len(pat) THEN [ok |-> TRUE, start |-> pos, ends |-> <<>>]
    ELSE LET a == pat[k]
             cap == IF a.hi < 0 THEN Len(txt) ELSE a.hi
         IN  TryCount(pat, txt, k, pos, RunLen(a.cls, txt, pos, cap))

TryCount(pat, txt, k, pos, n) ==
    IF n < pat[k].lo THEN NoMatch
    ELSE LET r == MatchFrom(pat, txt, k + 1, pos + n)
         IN  IF r.ok
             THEN [ok |-> TRUE, start |-> pos, ends |-> <<pos + n>> \o r.ends]
             ELSE TryCount(pat, txt, k, pos, n - 1)

\* re.search(pat, txt): the leftmost match
RECURSIVE SearchFrom(_, _, _)
SearchFrom(pat, txt, pos) ==
    IF pos > Len(txt) + 1 THEN NoMatch
    ELSE LET r == MatchFrom(pat, txt, 1, pos)
         IN  IF r.ok THEN r ELSE SearchFrom(pat, txt, pos + 1)

Search(pat, txt) == SearchFrom(pat, txt, 1)

\* the text atom k of a match consumed (a capture group around one atom)
Group(txt, m, k) ==
    LET from == IF k = 1 THEN m.start ELSE m.ends[k - 1]
    IN  SubSeq(txt, from, m.ends[k] - 1)

\* match.group(0)
Group0(txt, m) ==
    SubSeq(txt, m.start, (IF Len(m.ends) = 0 THEN m.start ELSE m.ends[Len(m.ends)]) - 1)

\* -------------------------------------------------------------- calendar

IsLeap(y) == (y % 4 = 0 /\ y % 100 # 0) \/ y % 400 = 0

DaysInMonth(y, m) ==
    IF m = 2 THEN (IF IsLeap(y) THEN 29 ELSE 28)
    ELSE IF m \in {4, 6, 9, 11} THEN 30 ELSE 31

\* datetime(y, m, d) raises ValueError unless this holds
ValidDate(y, m, d) ==
    /\ y >= 1 /\ y <= 9999
    /\ m >= 1 /\ m <= 12
    /\ d >= 1 /\ d <= DaysInMonth(y, m)

ValidTime(h, mi, s) == h <= 23 /\ mi <= 59 /\ s <= 59

\* a datetime: calendar date and seconds since midnight
DateTime(y, m, d, tod) == [y |-> y, m |-> m, d |-> d, tod |-> tod]

\* the absent parsed_date (None)
NoDate == [y |-> 0, m |-> 0, d |-> 0, tod |-> 0]

\* datetime.date(): the calendar date alone
DateOf(dt) == <<dt.y, dt.m, dt.d>>

\* a >= b on calendar dates
DateGE(a, b) ==
    \/ a[1] > b[1]
    \/ a[1] = b[1] /\ a[2] > b[2]
    \/ a[1] = b[1] /\ a[2] = b[2] /\ a[3] >= b[3]

\* a >= b on datetimes
DateTimeGE(a, b) ==
    \/ DateOf(a) # DateOf(b) /\ DateGE(DateOf(a), DateOf(b))
    \/ DateOf(a) = DateOf(b) /\ a.tod >= b.tod

PrevDay(dt) ==
    IF dt.d > 1 THEN [dt EXCEPT !.d = dt.d - 1]
    ELSE IF dt.m > 1 THEN [dt EXCEPT !.m = dt.m - 1, !.d = DaysInMonth(dt.y, dt.m - 1)]
    ELSE [dt EXCEPT !.y = dt.y - 1, !.m = 12, !.d = 31]

\* dt - timedelta(days=n): the time of day is kept
RECURSIVE MinusDays(_, _)
MinusDays(dt, n) == IF n = 0 THEN dt ELSE MinusDays(PrevDay(dt), n - 1)

\* calendar.month_name[1:] and calendar.month_abbr[1:]
month_name ==
    << <<"J","a","n","u","a","r","y">>, <<"F","e","b","r","u","a","r","y">>,
       <<"M","a","r","c","h">>, <<"A","p","r","i","l">>, <<"M","a","y">>,
       <<"J","u","n","e">>, <<"J","u","l","y">>, <<"A","u","g","u","s","t">>,
       <<"S","e","p","t","e","m","b","e","r">>, <<"O","c","t","o","b","e","r">>,
       <<"N","o","v","e","m","b","e","r">>, <<"D","e","c","e","m","b","e","r">> >>

month_abbr == [k \in 1..Len(month_name) |-> SubSeq(month_name[k], 1, 3)]

\* dict.get on a name -> number map: 0 when the name is no key
MapGet(names, s) ==
    IF \E k \in 1..Len(names) : names[k] = s
    THEN CHOOSE k \in 1..Len(names) : names[k] = s
    ELSE 0

\* datetime.strptime(s, "%b").month / "%B": the whole string must be a month
\* name, letter case ignored; 0 stands for the ValueError
Strptime(names, s) ==
    IF \E k \in 1..Len(names) : LowerStr(names[k]) = LowerStr(s)
    THEN CHOOSE k \in 1..Len(names) : LowerStr(names[k]) = LowerStr(s)
    ELSE 0

\* ------------------------------------------------- date parsing, Specific

D4 == Atom(Digit, 4, 4)

D2 == Atom(Digit, 2, 2)

D12 == Atom(Digit, 1, 2)

Ws == Atom(Space, 0, -1)

\* the list common_date_patterns: each regex, whether its format_str holds
\* a 'T' (the ISO branch), and the atoms its capture groups 1..3 enclose.
\* The trailing optional group (?:[+-]\d{2}:\d{2}|Z)? of the ISO regex is left
\* out: it decides neither whether the regex matches nor groups 1..6, and
\* only the calendar date of the result is read afterwards.
common_date_patterns ==
    << [regex |-> <<D4, Lit("nen"), Ws, D12, Lit("gatsu"), Ws, D12, Atom({"nichi"}, 0, 1)>>,
        iso |-> FALSE, groups |-> <<1, 4, 7>>],
       [regex |-> <<D4, Ws, Lit("nen"), Ws, D12, Ws, Lit("gatsu"), Ws, D12, Ws, Lit("nichi")>>,
        iso |-> FALSE, groups |-> <<1, 5, 9>>],
       [regex |-> <<D4, Lit("/"), Ws, D12, Lit("/"), Ws, D12>>,
        iso |-> FALSE, groups |-> <<1, 4, 7>>],
       [regex |-> <<D4, Lit("."), Ws, D12, Lit("."), Ws, D12>>,
        iso |-> FALSE, groups |-> <<1, 4, 7>>],
       [regex |-> <<D4, Lit("-"), D2, Lit("-"), D2, Lit("T"), D2, Lit(":"), D2, Lit(":"), D2>>,
        iso |-> TRUE, groups |-> <<1, 3, 5>>],
       [regex |-> <<D4, Lit("-"), D2, Lit("-"), D2>>,
        iso |-> FALSE, groups |-> <<1, 3, 5>>] >>

\* the texts of the capture groups of a match, one per atom of the pattern
Groups(txt, m) == [k \in 1..Len(m.ends) |-> Group(txt, m, k)]

\* datetime(year, month, day, ...) or NoDate for its ValueError
MakeDate(year, month, day) ==
    IF ValidDate(year, month, day) THEN DateTime(year, month, day, 0) ELSE NoDate

\* datetime.fromisoformat of the matched text and, when that raises,
\* strptime of the part before the 'T'
MakeIso(year, month, day, h, mi, s) ==
    IF ValidDate(year, month, day) /\ ValidTime(h, mi, s)
    THEN DateTime(year, month, day, h * 3600 + mi * 60 + s)
    ELSE MakeDate(year, month, day)

CommonFromGroups(p_info, g) ==
    IF p_info.iso
    THEN MakeIso(IntOf(g[1]), IntOf(g[3]), IntOf(g[5]), IntOf(g[7]), IntOf(g[9]), IntOf(g[11]))
    ELSE MakeDate(IntOf(g[p_info.groups[1]]), IntOf(g[p_info.groups[2]]),
                  IntOf(g[p_info.groups[3]]))

OnMatchCommon(p_info, date_text, match) ==
    IF ~match.ok THEN NoDate ELSE CommonFromGroups(p_info, Groups(date_text, match))

\* one pattern of the loop: the datetime it yields, or NoDate when the regex
\* does not match or the matched components raise ValueError (continue)
TryCommonPattern(p_info, date_text) ==
    OnMatchCommon(p_info, date_text, Search(p_info.regex, date_text))

\* for p_info in common_date_patterns: the first pattern that yields a date
RECURSIVE CommonPatternsFrom(_, _)
RECURSIVE CommonPatternsNext(_, _, _)
CommonPatternsFrom(date_text, k) ==
    IF k > Len(common_date_patterns) THEN NoDate
    ELSE CommonPatternsNext(date_text, k, TryCommonPattern(common_date_patterns[k], date_text))

CommonPatternsNext(date_text, k, r) ==
    IF r # NoDate THEN r ELSE CommonPatternsFrom(date_text, k + 1)

\* the module's imports: csv, requests, bs4, datetime, re, os; calendar is
\* not among them, so the name raises NameError where it is read
CalendarImported == FALSE

\* month_map.get(month_str_cleaned) or month_abbr_map.get(month_str_cleaned)
MonthVal(month_str_cleaned) ==
    IF MapGet(month_name, month_str_cleaned) # 0
    THEN MapGet(month_name, month_str_cleaned)
    ELSE MapGet(month_abbr, month_str_cleaned)

EnglishFromGroups(year, month_val, day) ==
    IF month_val # 0 THEN MakeDate(year, month_val, day) ELSE NoDate

\* ([A-Za-z]{3,})\.?\s+(\d{1,2}),?\s+(\d{4})
month_day_year ==
    <<Atom(Alpha, 3, -1), Atom({"."}, 0, 1), Atom(Space, 1, -1), D12,
      Atom({","}, 0, 1), Atom(Space, 1, -1), D4>>

OnMatchEnglish(date_text, month_day_year_match) ==
    IF ~month_day_year_match.ok THEN NoDate
    ELSE IF ~CalendarImported THEN NoDate
    ELSE EnglishFromGroups(IntOf(Group(date_text, month_day_year_match, 7)),
                           MonthVal(Capitalize(Group(date_text, month_day_year_match, 1))),
                           IntOf(Group(date_text, month_day_year_match, 4)))

\* if not parsed_date: the English month-name fallback.  Any exception in
\* it is swallowed (except Exception) and leaves parsed_date None.
EnglishMonthSpecific(date_text) ==
    OnMatchEnglish(date_text, Search(month_day_year, date_text))

OrElseEnglish(r, date_text) == IF r # NoDate THEN r ELSE EnglishMonthSpecific(date_text)

\* parsed_date of the Specific branch
ParseSpecific(date_text) == OrElseEnglish(CommonPatternsFrom(date_text, 1), date_text)

\* -------------------------------------------------- date parsing, Generic

AlphaPlus == Atom(Alpha, 1, -1)

patterns ==
    << <<D4, Atom({"nen", ".", "/", "-"}, 1, 1), D12,
         Atom({"gatsu", ".", "/", "-"}, 1, 1), D12, Atom({"nichi"}, 0, 1)>>,
       <<D12, Ws, AlphaPlus, Ws, Lit(","), Ws, D4>>,
       <<AlphaPlus, Ws, D12, Ws, Lit(","), Ws, D4>>,
       <<D4, Lit("-"), D2, Lit("-"), D2, Lit("T"), D2, Lit(":"), D2, Lit(":"), D2>> >>

\* strptime(month_str, "%b") if len(month_str) == 3 else strptime(month_str, "%B")
MonthOfName(month_str) ==
    IF Len(month_str) = 3 THEN Strptime(month_abbr, month_str)
    ELSE Strptime(month_name, month_str)

NamedDate(year, month, day) == IF month # 0 THEN MakeDate(year, month, day) ELSE NoDate

\* datetime(year, month, day, hour, minute, second) or NoDate for its ValueError
MakeDateTime(year, month, day, h, mi, s) ==
    IF ValidDate(year, month, day) /\ ValidTime(h, mi, s)
    THEN DateTime(year, month, day, h * 3600 + mi * 60 + s)
    ELSE NoDate

GenericFromGroups(p_idx, g) ==
    IF p_idx = 1 THEN MakeDate(IntOf(g[1]), IntOf(g[3]), IntOf(g[5]))
    ELSE IF p_idx = 2 THEN NamedDate(IntOf(g[7]), MonthOfName(g[3]), IntOf(g[1]))
    ELSE IF p_idx = 3 THEN NamedDate(IntOf(g[7]), MonthOfName(g[1]), IntOf(g[3]))
    ELSE MakeDateTime(IntOf(g[1]), IntOf(g[3]), IntOf(g[5]),
                      IntOf(g[7]), IntOf(g[9]), IntOf(g[11]))

OnMatchGeneric(p_idx, date_text, match) ==
    IF ~match.ok THEN NoDate ELSE GenericFromGroups(p_idx, Groups(date_text, match))

\* one pattern of the Generic loop (p_idx counted from 1 here): the datetime
\* it yields, or NoDate when it does not match or raises ValueError
TryGenericPattern(p_idx, date_text) ==
    OnMatchGeneric(p_idx, date_text, Search(patterns[p_idx], date_text))

RECURSIVE GenericPatternsFrom(_, _)
RECURSIVE GenericPatternsNext(_, _, _)
GenericPatternsFrom(date_text, p_idx) ==
    IF p_idx > Len(patterns) THEN NoDate
    ELSE GenericPatternsNext(date_text, p_idx, TryGenericPattern(p_idx, date_text))

GenericPatternsNext(date_text, p_idx, r) ==
    IF r # NoDate THEN r ELSE GenericPatternsFrom(date_text, p_idx + 1)

\* parsed_date of the Generic branch
ParseGeneric(date_text) == GenericPatternsFrom(date_text, 1)

\* ------------------------------------------------------ values and pages

\* Python's None, and a present string
None == [some |-> FALSE, v |-> <<>>]

Some(s) == [some |-> TRUE, v |-> s]

\* truthiness of a str-or-None value
Truthy(x) == x.some /\ x.v # <<>>

NA == <<"N", "/", "A">>

NA_REGEX_FAIL == NA \o <<"_", "R", "E", "G", "E", "X", "_", "F", "A", "I", "L">>

HTTP == <<"h", "t", "t", "p">>

SKIPPED == <<"SKIPPED">>

REGEX_DATE == <<"REGEX_DATE:">>

\* select_one found no element
NoTag == [found |-> FALSE, name |-> "", href |-> None, text |-> <<>>]

\* an element: its tag name, its href attribute, its stripped text
Tag(name, href, text) == [found |-> TRUE, name |-> name, href |-> href, text |-> text]

\* urllib.parse.urljoin(base, rel) for a relative reference that is an
\* absolute path (scheme and host of base kept) or a plain path (resolved
\* against the directory of base)
RECURSIVE NthSlash(_, _, _)
NthSlash(s, n, k) ==
    IF k > Len(s) THEN Len(s) + 1
    ELSE IF s[k] = "/" THEN (IF n = 1 THEN k ELSE NthSlash(s, n - 1, k + 1))
    ELSE NthSlash(s, n, k + 1)

RECURSIVE LastSlash(_, _)
LastSlash(s, k) == IF k = 0 \/ s[k] = "/" THEN k ELSE LastSlash(s, k - 1)

urljoin(base, rel) ==
    IF rel = <<>> THEN base
    ELSE IF rel[1] = "/" THEN SubSeq(base, 1, NthSlash(base, 3, 1) - 1) \o rel
    ELSE SubSeq(base, 1, LastSlash(base, Len(base))) \o rel

\* item.get_text(separator=" ", strip=True): the texts of the item joined
ItemText(item) ==
    LET t == IF item.title_tag.found THEN item.title_tag.text ELSE <<>>
        d == IF item.date_tag.found THEN item.date_tag.text ELSE <<>>
        l == IF item.link_tag.found THEN item.link_tag.text ELSE <<>>
        join(a, b) == IF a = <<>> THEN b ELSE IF b = <<>> THEN a ELSE a \o <<" ">> \o b
    IN  join(join(t, d), l)

\* re.compile of a configured REGEX_DATE pattern string
RegexOf(pattern_str) ==
    IF pattern_str = "\\d{4}-\\d{2}-\\d{2}" THEN <<D4, Lit("-"), D2, Lit("-"), D2>>
    ELSE IF pattern_str = "\\d{4}/\\d{1,2}/\\d{1,2}" THEN <<D4, Lit("/"), D12, Lit("/"), D12>>
    ELSE <<Lit(pattern_str)>>

\* --------------------------------------------------- selector resolution

\* SITE_SELECTORS.get(company_name) is absent
NoSelectors ==
    [present |-> FALSE, list_selector |-> None, title_selector |-> None,
     date_selector |-> None, link_selector |-> None]

Selectors(l, t, d, k) ==
    [present |-> TRUE, list_selector |-> l, title_selector |-> t,
     date_selector |-> d, link_selector |-> k]

\* the condition of the first if: all four selectors truthy, no skip marker
UsesSpecific(selectors) ==
    /\ selectors.present
    /\ Truthy(selectors.list_selector)
    /\ Truthy(selectors.title_selector)
    /\ Truthy(selectors.date_selector)
    /\ Truthy(selectors.link_selector)
    /\ ~StartsWith(selectors.list_selector.v, SKIPPED)

\* Resolve with the completeness of the row tested before the skip marker
ResolveCompletenessFirst(selectors) ==
    IF UsesSpecific(selectors) THEN "Specific"
    ELSE IF selectors.present /\ ~selectors.list_selector.some THEN "AttributeError"
    ELSE IF ~(Truthy(selectors.title_selector) /\ Truthy(selectors.date_selector)
              /\ Truthy(selectors.link_selector)) THEN "Generic"
    ELSE IF selectors.present /\ StartsWith(selectors.list_selector.v, SKIPPED) THEN "Skip"
    ELSE "Generic"

\* the branch taken after a successful fetch.  In the else branch
\* selectors.get('list_selector', '') is None when the table holds None for
\* the field, and None.startswith raises AttributeError.
Resolve(selectors) ==
    IF UsesSpecific(selectors) THEN "Specific"
    ELSE IF selectors.present /\ ~selectors.list_selector.some THEN "AttributeError"
    ELSE IF selectors.present /\ StartsWith(selectors.list_selector.v, SKIPPED) THEN "Skip"
    ELSE "Generic"

\* ------------------------------------------------- one item, Specific

OnRegexDate(item_text_for_regex, match_date_in_item) ==
    IF match_date_in_item.ok
    THEN Group0(item_text_for_regex, match_date_in_item)
    ELSE NA_REGEX_FAIL

RegexDateText(pattern_str, item_text_for_regex) ==
    OnRegexDate(item_text_for_regex, Search(RegexOf(pattern_str), item_text_for_regex))

\* date_text_content of the Specific branch
SpecificDateText(item, sel) ==
    IF ~StartsWith(sel.date_selector.v, REGEX_DATE)
    THEN IF item.date_tag.found THEN item.date_tag.text ELSE NA
    ELSE RegexDateText(sel.date_selector.v[2], ItemText(item))

RawSpecificUrl(link_tag) ==
    IF ~link_tag.found THEN NA
    ELSE IF Truthy(link_tag.href) THEN link_tag.href.v
    ELSE IF link_tag.name = "link" /\ link_tag.text # <<>> THEN link_tag.text
    ELSE NA

JoinSpecificUrl(link_tag, raw, page_url) ==
    IF link_tag.found /\ raw # NA /\ ~StartsWith(raw, HTTP)
    THEN urljoin(page_url, raw)
    ELSE raw

\* news_url of the Specific branch
SpecificUrl(item, page_url) ==
    JoinSpecificUrl(item.link_tag, RawSpecificUrl(item.link_tag), page_url)

\* whether the parsed date passes the window test of the Specific branch
SpecificInWindow(parsed_date, date_limit) ==
    DateGE(DateOf(parsed_date), DateOf(date_limit))

Result(msg, append, parsed) == [msg |-> msg, append |-> append, parsed |-> parsed]

\* SpecificOnParsed with the test written "not parsed_date or ...": an item
\* whose date no recognizer parses is appended
SpecificOnParsedOrMissing(rec, parsed_date, limit) ==
    IF parsed_date = NoDate \/ SpecificInWindow(parsed_date, limit)
    THEN Result("Found (Specific)", <<rec>>, parsed_date)
    ELSE Result("Found (Specific, but old)", <<>>, parsed_date)

\* the three-way test on parsed_date of the Specific branch
SpecificOnParsed(rec, parsed_date, limit) ==
    IF parsed_date # NoDate /\ SpecificInWindow(parsed_date, limit)
    THEN Result("Found (Specific)", <<rec>>, parsed_date)
    ELSE IF parsed_date # NoDate
    THEN Result("Found (Specific, but old)", <<>>, parsed_date)
    ELSE Result("Could not parse date (Specific)", <<>>, NoDate)

SpecificOnFields(company, news_title, date_text, news_url, limit) ==
    IF news_title # NA /\ date_text # NA /\ ~StartsWith(date_text, NA \o <<"_">>)
       /\ news_url # NA
    THEN SpecificOnParsed([company |-> company, title |-> news_title, url |-> Some(news_url)],
                          ParseSpecific(date_text), limit)
    ELSE Result("Missing title, date, or URL", <<>>, NoDate)

\* the body of the Specific loop for one item: what it prints, and the
\* record it appends when it prints "Found (Specific)"
SpecificItemResult(item, sel, company, page_url, limit) ==
    SpecificOnFields(company,
                     IF item.title_tag.found THEN item.title_tag.text ELSE NA,
                     SpecificDateText(item, sel),
                     SpecificUrl(item, page_url),
                     limit)

\* -------------------------------------------------- one item, Generic

RawGenericUrl(link_tag) ==
    IF ~link_tag.href.some /\ link_tag.name = "link"
    THEN Some(link_tag.text)
    ELSE link_tag.href

JoinGenericUrl(raw, page_url) ==
    IF Truthy(raw) /\ ~StartsWith(raw.v, HTTP)
    THEN Some(urljoin(page_url, raw.v))
    ELSE raw

\* news_url of the Generic branch: None when the element has no href
GenericUrl(item, page_url) == JoinGenericUrl(RawGenericUrl(item.link_tag), page_url)

\* any(str(n) in news_title or str(n) in news_url for n in ns), ns a
\* sequence: "True", "False", or "TypeError" when news_url is None and is
\* reached by the in operator
RECURSIVE AnyIn(_, _, _)
AnyIn(ns, news_title, news_url) ==
    IF ns = <<>> THEN "False"
    ELSE IF Contains(news_title, StrOf(Head(ns))) THEN "True"
    ELSE IF ~news_url.some THEN "TypeError"
    ELSE IF Contains(news_url.v, StrOf(Head(ns))) THEN "True"
    ELSE AnyIn(Tail(ns), news_title, news_url)

\* range(a, b + 1) as a sequence
Range(a, b) == [k \in 1..(IF b >= a THEN b - a + 1 ELSE 0) |-> a + k - 1]

\* str(today.year) in (news_title or news_url)
YearIn(hay, year) ==
    IF ~hay.some THEN "TypeError"
    ELSE IF Contains(hay.v, StrOf(year)) THEN "True" ELSE "False"

AndThen(first, rest) == IF first # "True" THEN first ELSE rest

\* the date-inferred test of the Generic branch, evaluated left to right
Inferred(news_title, news_url, limit, now) ==
    AndThen(AnyIn(Range(limit.d, now.d), news_title, news_url),
            AndThen(AnyIn(<<limit.m, now.m>>, news_title, news_url),
                    YearIn(IF news_title # <<>> THEN Some(news_title) ELSE news_url, now.y)))

\* whether the parsed date passes the window test of the Generic branch
GenericInWindow(parsed_date, date_limit) == DateTimeGE(parsed_date, date_limit)

GenericOnInferred(rec, inferred) ==
    IF inferred = "TypeError" THEN Result("TypeError", <<>>, NoDate)
    ELSE IF inferred = "True" THEN Result("Found (Generic - date inferred)", <<rec>>, NoDate)
    ELSE Result("(not inferred)", <<>>, NoDate)

GenericOnParsed(rec, parsed_date, limit, now) ==
    IF parsed_date # NoDate
    THEN IF GenericInWindow(parsed_date, limit)
         THEN Result("Found (Generic)", <<rec>>, parsed_date)
         ELSE Result("(old)", <<>>, parsed_date)
    ELSE GenericOnInferred(rec, Inferred(rec.title, rec.url, limit, now))

\* the body of the Generic loop for one item: the message it prints (in
\* parentheses where it prints none), the record it appends, or TypeError
GenericItemResult(item, company, page_url, limit, now) ==
    IF ~(item.title_tag.found /\ item.date_tag.found /\ item.link_tag.found)
    THEN Result("(no fields)", <<>>, NoDate)
    ELSE GenericOnParsed([company |-> company, title |-> item.title_tag.text,
                          url |-> GenericUrl(item, page_url)],
                         ParseGeneric(item.date_tag.text), limit, now)

\* ------------------------------------------------------------- the run

VARIABLES
    companies,          \* the rows of companies_csv_path, each with what the
                        \* network returns for its url: the outcome of
                        \* requests.get and the items of the page
    SITE_SELECTORS,     \* the selector table, by company name
    today,              \* datetime.now() at the start of the run
    days_within,        \* the argument days_within
    pc,                 \* "row", "specific", "generic", "done" (the list is
                        \* returned) or "exit" (the script has ended)
    row,                \* the row of the reader the loop is at (from 1)
    i,                  \* the item of news_items the inner loop is at (from 1)
    found_news,         \* the list returned
    skipped_sites_log,  \* the lines appended to skipped_sites.log
    output_file,        \* the CSV file the script wrote: its name and rows
    steps               \* history: what the run has done so far, one entry
                        \* per requests.get, per branch entered, per item
                        \* (with its parsed_date), per log line written and
                        \* per row completed

vars == <<companies, SITE_SELECTORS, today, days_within, pc, row, i,
          found_news, skipped_sites_log, output_file, steps>>

\* date_limit = today - timedelta(days=days_within)
date_limit == MinusDays(today, days_within)

company_name == companies[row].company

news_page_url == companies[row].url

news_items == companies[row].news_items

selectors == SITE_SELECTORS[company_name]

\* requests.get / raise_for_status / BeautifulSoup ended without exception
Fetched(r) == r.get.exc = ""

TimeoutClasses == {"Timeout", "ConnectTimeout", "ReadTimeout"}

RequestExceptionClasses ==
    {"HTTPError", "SSLError", "ConnectionError", "MissingSchema", "InvalidURL"}
        \cup TimeoutClasses

\* Handler with the except clause of RequestException written first: it
\* catches the HTTP, SSL and timeout errors too
HandlerRequestExceptionFirst(get) ==
    IF get.exc \in RequestExceptionClasses THEN <<"RequestException", <<get.exc>> >>
    ELSE <<"Other Exception", <<get.exc>> >>

\* the except clause an exception of the try body reaches, as the reason
\* written to the log
Handler(get) ==
    IF get.exc = "HTTPError"
    THEN IF get.status = 403 THEN <<"403 Forbidden", <<>> >>
         ELSE <<"HTTP Error", StrOf(get.status)>>
    ELSE IF get.exc = "SSLError" THEN <<"SSL Error", <<>> >>
    ELSE IF get.exc \in TimeoutClasses THEN <<"Timeout", <<>> >>
    ELSE IF get.exc \in RequestExceptionClasses THEN <<"RequestException", <<get.exc>> >>
    ELSE <<"Other Exception", <<get.exc>> >>

LogLine(h) ==
    [reason |-> h[1], detail |-> h[2], company |-> company_name, url |-> news_page_url]

Step(msg, k, parsed) == [msg |-> msg, row |-> row, i |-> k, parsed |-> parsed]

Get == Step("requests.get", 0, NoDate)

\* the rest of the loop body after an exception or the end of the items:
\* the loop goes on with the next row
NextRow == pc' = "row" /\ row' = row + 1 /\ i' = 1

Frame == UNCHANGED <<companies, SITE_SELECTORS, today, days_within, output_file>>

\* FetchFailed with the log opened in mode 'w': the line replaces the log
FetchFailedTruncates ==
    /\ pc = "row" /\ row <= Len(companies)
    /\ ~Fetched(companies[row])
    /\ skipped_sites_log' = <<LogLine(Handler(companies[row].get))>>
    /\ steps' = steps \o <<Get, Step(Handler(companies[row].get)[1], 0, NoDate)>>
    /\ NextRow
    /\ UNCHANGED found_news
    /\ Frame

\* requests.get or raise_for_status raises: one except clause logs the site
FetchFailed ==
    /\ pc = "row" /\ row <= Len(companies)
    /\ ~Fetched(companies[row])
    /\ skipped_sites_log' = Append(skipped_sites_log, LogLine(Handler(companies[row].get)))
    /\ steps' = steps \o <<Get, Step(Handler(companies[row].get)[1], 0, NoDate)>>
    /\ NextRow
    /\ UNCHANGED found_news
    /\ Frame

\* the page is fetched and the list selector starts with SKIPPED: log, continue
SkipSite ==
    /\ pc = "row" /\ row <= Len(companies)
    /\ Fetched(companies[row])
    /\ Resolve(selectors) = "Skip"
    /\ skipped_sites_log' =
           Append(skipped_sites_log, LogLine(<<"Selector Config", selectors.list_selector.v>>))
    /\ steps' = steps \o <<Get, Step("Selector Config", 0, NoDate)>>
    /\ NextRow
    /\ UNCHANGED found_news
    /\ Frame

\* the page is fetched and the else branch raises AttributeError
SelectorError ==
    /\ pc = "row" /\ row <= Len(companies)
    /\ Fetched(companies[row])
    /\ Resolve(selectors) = "AttributeError"
    /\ skipped_sites_log' =
           Append(skipped_sites_log, LogLine(<<"Other Exception", <<"AttributeError">> >>))
    /\ steps' = steps \o <<Get, Step("Other Exception", 0, NoDate)>>
    /\ NextRow
    /\ UNCHANGED found_news
    /\ Frame

\* the page is fetched and the Specific branch is entered: soup.select
StartSpecific ==
    /\ pc = "row" /\ row <= Len(companies)
    /\ Fetched(companies[row])
    /\ Resolve(selectors) = "Specific"
    /\ pc' = "specific" /\ i' = 1
    /\ steps' = steps \o <<Get, Step("Using specific selectors", 0, NoDate)>>
    /\ UNCHANGED <<row, found_news, skipped_sites_log>>
    /\ Frame

\* the page is fetched and the Generic branch is entered: soup.select
StartGeneric ==
    /\ pc = "row" /\ row <= Len(companies)
    /\ Fetched(companies[row])
    /\ Resolve(selectors) = "Generic"
    /\ pc' = "generic" /\ i' = 1
    /\ steps' = steps \o <<Get, Step("Using generic approach", 0, NoDate)>>
    /\ UNCHANGED <<row, found_news, skipped_sites_log>>
    /\ Frame

\* found_news.append of the record of an accepted item, none otherwise
AppendResult(r) ==
    /\ found_news' = found_news \o r.append
    /\ steps' = Append(steps, Step(r.msg, i, r.parsed))

generic_result ==
    GenericItemResult(news_items[i], company_name, news_page_url, date_limit, today)

\* one iteration of the Specific loop
SpecificItem ==
    /\ pc = "specific" /\ i <= Len(news_items)
    /\ AppendResult(SpecificItemResult(news_items[i], selectors, company_name,
                                       news_page_url, date_limit))
    /\ i' = i + 1
    /\ UNCHANGED <<pc, row, skipped_sites_log>>
    /\ Frame

\* one iteration of the Generic loop that raises nothing
GenericItem ==
    /\ pc = "generic" /\ i <= Len(news_items)
    /\ generic_result.msg # "TypeError"
    /\ AppendResult(generic_result)
    /\ i' = i + 1
    /\ UNCHANGED <<pc, row, skipped_sites_log>>
    /\ Frame

\* GenericItemRaises without the except Exception clause: the TypeError
\* leaves get_news_releases and ends the run
GenericItemRaisesAborts ==
    /\ pc = "generic" /\ i <= Len(news_items)
    /\ generic_result.msg = "TypeError"
    /\ steps' = Append(steps, Step("TypeError", i, NoDate))
    /\ pc' = "done"
    /\ UNCHANGED <<row, i, found_news, skipped_sites_log>>
    /\ Frame

\* one iteration of the Generic loop in which the date-inferred test raises
\* TypeError: except Exception logs the site, the rest of its items is left
GenericItemRaises ==
    /\ pc = "generic" /\ i <= Len(news_items)
    /\ generic_result.msg = "TypeError"
    /\ skipped_sites_log' =
           Append(skipped_sites_log, LogLine(<<"Other Exception", <<"TypeError">> >>))
    /\ steps' = steps \o <<Step("TypeError", i, NoDate), Step("Other Exception", 0, NoDate)>>
    /\ NextRow
    /\ UNCHANGED found_news
    /\ Frame

\* the items of the page are exhausted
EndOfItems ==
    /\ pc \in {"specific", "generic"} /\ i > Len(news_items)
    /\ NextRow
    /\ steps' = Append(steps, Step("completed", 0, NoDate))
    /\ UNCHANGED <<found_news, skipped_sites_log>>
    /\ Frame

\* the reader is exhausted: return found_news
Return ==
    /\ pc = "row" /\ row > Len(companies)
    /\ pc' = "done"
    /\ UNCHANGED <<row, i, found_news, skipped_sites_log, steps>>
    /\ Frame

\* strftime("%Y_%m_%d")
strftime(dt) ==
    Pad(StrOf(dt.y), 4) \o <<"_">> \o Pad(StrOf(dt.m), 2) \o <<"_">> \o Pad(StrOf(dt.d), 2)

today_str == strftime(today)

\* (datetime.now() - timedelta(days=days-1)).strftime("%Y_%m_%d"); the
\* script reads the clock for the name as the run starts, the same day
past_date_str == strftime(MinusDays(today, days_within - 1))

output_csv_filename == past_date_str \o <<"-">> \o today_str \o <<".csv">>

\* no file written
NoFile == [written |-> FALSE, name |-> <<>>, rows |-> <<>>]

\* save_to_csv(news_list, output_filename): one row per record
save_to_csv(news_list, output_filename) ==
    [written |-> TRUE, name |-> output_filename, rows |-> news_list]

\* the end of the script: the list returned is saved unless it is empty
SaveOrReport ==
    /\ pc = "done"
    /\ pc' = "exit"
    /\ output_file' = IF found_news # <<>>
                      THEN save_to_csv(found_news, output_csv_filename)
                      ELSE NoFile
    /\ UNCHANGED <<companies, SITE_SELECTORS, today, days_within, row, i,
                   found_news, skipped_sites_log, steps>>

Next ==
    \/ FetchFailed
    \/ SkipSite
    \/ SelectorError
    \/ StartSpecific
    \/ StartGeneric
    \/ SpecificItem
    \/ GenericItem
    \/ GenericItemRaises
    \/ EndOfItems
    \/ Return
    \/ SaveOrReport

\* ------------------------------------------------------------- inputs

\* the most rows a companies file holds, and the most items a page holds
MaxSites == 2

MaxItems == 3

UpperStr(s) == [k \in 1..Len(s) |-> UpperChar(s[k])]

YMD(y, m, d) == <<y, m, d>>

Y4(date) == Pad(StrOf(date[1]), 4)

\* a calendar date written in one of the formats the pages use; cs is the
\* letter case of an English month name
Cased(s, cs) == IF cs = "upper" THEN UpperStr(s) ELSE IF cs = "lower" THEN LowerStr(s) ELSE s

Render(fmt, cs, date) ==
    LET m1 == StrOf(date[2])
        d1 == StrOf(date[3])
        m2 == Pad(m1, 2)
        d2 == Pad(d1, 2)
        full == Cased(month_name[date[2]], cs)
        abbr == Cased(month_abbr[date[2]], cs)
    IN  CASE fmt = "kanji"       -> Y4(date) \o <<"nen">> \o m1 \o <<"gatsu">> \o d1 \o <<"nichi">>
          [] fmt = "kanji_noday" -> Y4(date) \o <<"nen">> \o m2 \o <<"gatsu">> \o d2
          [] fmt = "slash"       -> Y4(date) \o <<"/">> \o m2 \o <<"/">> \o d2
          [] fmt = "slash1"      -> Y4(date) \o <<"/">> \o m1 \o <<"/">> \o d1
          [] fmt = "dot"         -> Y4(date) \o <<".">> \o m2 \o <<".">> \o d2
          [] fmt = "dash"        -> Y4(date) \o <<"-">> \o m2 \o <<"-">> \o d2
          [] fmt = "iso"         -> Y4(date) \o <<"-">> \o m2 \o <<"-">> \o d2
                                      \o <<"T", "1", "0", ":", "3", "0", ":", "0", "0">>
          [] fmt = "iso_z"       -> Y4(date) \o <<"-">> \o m2 \o <<"-">> \o d2
                                      \o <<"T", "2", "3", ":", "5", "9", ":", "5", "9", "Z">>
          [] fmt = "dmy_full"    -> d1 \o <<" ">> \o full \o <<",", " ">> \o Y4(date)
          [] fmt = "dmy_abbr"    -> d2 \o <<" ">> \o abbr \o <<",", " ">> \o Y4(date)
          [] fmt = "mdy_full"    -> full \o <<" ">> \o d1 \o <<",", " ">> \o Y4(date)
          [] fmt = "mdy_abbr"    -> abbr \o <<" ">> \o d2 \o <<",", " ">> \o Y4(date)

NumericFormats == {"kanji", "kanji_noday", "slash", "slash1", "dot", "dash", "iso", "iso_z"}

EnglishFormats == {"dmy_full", "dmy_abbr", "mdy_full", "mdy_abbr"}

Cases == {"cap", "upper", "lower"}

\* the run starts on one of these days, at midnight or at noon
Todays == {YMD(2024, 3, 5), YMD(2024, 5, 16)}

TimesOfDay == {0, 12 * 3600}

DaysWithin == {1, 7}

\* dates around the lower bounds of those runs, and far from them
ProbeDates ==
    {YMD(2023, 12, 31), YMD(2024, 2, 26), YMD(2024, 2, 27), YMD(2024, 2, 29),
     YMD(2024, 3, 3), YMD(2024, 3, 4), YMD(2024, 3, 5), YMD(2024, 5, 8),
     YMD(2024, 5, 9), YMD(2024, 5, 15), YMD(2024, 5, 16), YMD(2024, 12, 1)}

\* the date texts of the probe items: [text, fmt, date]
ProbeTexts ==
    {[text |-> Render(f, "cap", dt), fmt |-> f, cs |-> "cap", date |-> dt] :
        f \in NumericFormats, dt \in ProbeDates}
    \cup {[text |-> Render(f, c, dt), fmt |-> f, cs |-> c, date |-> dt] :
        f \in EnglishFormats, c \in Cases, dt \in ProbeDates}

PageUrl == <<"h", "t", "t", "p", ":", "/", "/", "x", "/", "n", "/">>

TitlePlain == <<"N", "e", "w", "s">>

TitleDated == <<"2", "0", "2", "4", " ", "3", " ", "5">>

Soon == <<"s", "o", "o", "n">>

Item(title_tag, date_tag, link_tag) ==
    [title_tag |-> title_tag, date_tag |-> date_tag, link_tag |-> link_tag]

TitleTag(text) == Tag("h2", None, text)

DateTag(text) == Tag("time", None, text)

LinkRel == Tag("a", Some(<<"/", "r", "/", "a">>), <<>>)

LinkAbs == Tag("a", Some(HTTP \o <<":", "/", "/", "y", "/", "b">>), <<>>)

LinkNoHref == Tag("a", None, <<>>)

LinkElement == Tag("link", None, HTTP \o <<":", "/", "/", "x", "/", "c">>)

INew == Item(TitleTag(TitlePlain), DateTag(Render("slash", "cap", YMD(2024, 5, 16))), LinkRel)

IOld == Item(TitleTag(TitlePlain), DateTag(Render("slash", "cap", YMD(2024, 1, 1))), LinkAbs)

INoTitle == Item(NoTag, DateTag(Render("slash", "cap", YMD(2024, 5, 16))), LinkRel)

INoUrl == Item(TitleTag(TitlePlain), DateTag(Render("slash", "cap", YMD(2024, 5, 16))), LinkNoHref)

ISoon == Item(TitleTag(TitlePlain), DateTag(Soon), LinkRel)

INoUrlSoon == Item(TitleTag(TitlePlain), DateTag(Soon), LinkNoHref)

\* the items the pages of several items are made of
PageItems == {INew, IOld, INoTitle, INoUrl, ISoon, INoUrlSoon}

\* single items: every probe date text, and the other shapes of an item
ProbeItems ==
    {Item(TitleTag(TitlePlain), DateTag(t.text), LinkRel) : t \in ProbeTexts}
    \cup {Item(TitleTag(tt), dg, lk) :
            tt \in {TitlePlain, TitleDated, <<>>},
            dg \in {NoTag, DateTag(Soon), DateTag(Render("dash", "cap", YMD(2024, 5, 16)))},
            lk \in {NoTag, LinkRel, LinkNoHref, LinkElement, Tag("link", None, <<>>)}}

\* date texts that a recognizer matches with components that are no
\* calendar date: month 13, day 45, 30 February, 29 February 2023, day 32
OutOfCalendar ==
    {<<"2", "0", "2", "4", "/", "1", "3", "/", "4", "5">>,
     <<"2", "0", "2", "4", "nen", "1", "3", "gatsu", "1", "nichi">>,
     <<"2", "0", "2", "3", ".", "0", "2", ".", "2", "9">>,
     <<"2", "0", "2", "4", "-", "0", "2", "-", "3", "0">>,
     <<"2", "0", "2", "4", "-", "0", "2", "-", "3", "0", "T", "1", "0", ":", "3", "0", ":", "0", "0">>,
     <<"3", "2", " ", "M", "a", "y", ",", " ", "2", "0", "2", "4">>,
     <<"M", "a", "y", " ", "3", "2", ",", " ", "2", "0", "2", "4">>}

\* such a text alone, and followed by a valid date in another format
InvalidTexts ==
    OutOfCalendar
    \cup {b \o <<" ">> \o Render(f, "cap", dt) :
            b \in OutOfCalendar,
            f \in {"kanji", "slash", "dash", "iso", "dmy_abbr", "mdy_full"},
            dt \in {YMD(2024, 3, 4), YMD(2024, 5, 16)}}

\* pages whose first item carries such a date text: the item with and
\* without an href, followed by an item of today
InvalidPages ==
    {<<Item(TitleTag(TitlePlain), DateTag(t), lk)>> \o rest :
        t \in InvalidTexts, lk \in {LinkRel, LinkNoHref}, rest \in {<<>>, <<INew>>}}

RECURSIVE SeqsUpTo(_, _)
SeqsUpTo(S, n) ==
    IF n = 0 THEN {<<>>}
    ELSE LET shorter == SeqsUpTo(S, n - 1)
         IN  shorter \cup {Append(q, x) : q \in {p \in shorter : Len(p) = n - 1}, x \in S}

Css(name) == Some(<<name>>)

CssSelectors == Selectors(Css("ul.news li"), Css("h2"), Css("time"), Css("a"))

RegexSelectors ==
    Selectors(Css("ul.news li"), Css("h2"),
              Some(REGEX_DATE \o <<"\\d{4}/\\d{1,2}/\\d{1,2}">>), Css("a"))

SkippedSelectors ==
    Selectors(Some(SKIPPED \o <<": needs JavaScript">>), Css("h2"), Css("time"), Css("a"))

\* a row of site_selectors.csv shorter than its header: DictReader fills
\* the missing fields with None
ShortRowSelectors == Selectors(None, None, None, None)

CompanyNames == {"Generic Co", "Css Co", "Regex Co", "Skipped Co", "Short Co", "Probe Co"}

BaseSelectors ==
    [c \in CompanyNames |->
        CASE c = "Css Co" -> CssSelectors
          [] c = "Regex Co" -> RegexSelectors
          [] c = "Skipped Co" -> SkippedSelectors
          [] c = "Short Co" -> ShortRowSelectors
          [] OTHER -> NoSelectors]

\* every shape of a selector row: each field None, empty or set, the list
\* selector also with the skip marker, the date selector also a REGEX_DATE
AllSelectors ==
    {Selectors(l, t, d, k) :
        l \in {None, Some(<<>>), Css("ul.news li"), Some(SKIPPED \o <<": blocked">>)},
        t \in {None, Some(<<>>), Css("h2")},
        d \in {None, Some(<<>>), Css("time"), Some(REGEX_DATE \o <<"\\d{4}-\\d{2}-\\d{2}">>)},
        k \in {None, Some(<<>>), Css("a")}}
    \cup {NoSelectors}

OkGet == [exc |-> "", status |-> 200]

FailedGets ==
    {[exc |-> "HTTPError", status |-> 403], [exc |-> "HTTPError", status |-> 500],
     [exc |-> "SSLError", status |-> 0], [exc |-> "ReadTimeout", status |-> 0],
     [exc |-> "ConnectionError", status |-> 0], [exc |-> "UnicodeError", status |-> 0]}

Row(company, get, items) ==
    [company |-> company, url |-> PageUrl, get |-> get, news_items |-> items]

\* the sites of the runs of several sites
RunSites ==
    {Row("Generic Co", g, <<INew>>) : g \in FailedGets}
    \cup {Row(c, OkGet, <<INew>>) : c \in {"Generic Co", "Css Co", "Skipped Co", "Short Co"}}
    \cup {Row("Generic Co", OkGet, <<INoUrlSoon>>)}

\* a run: its companies file with the network's answers, its selector table
Scenario(rows, table) == [companies |-> rows, SITE_SELECTORS |-> table]

Scenarios ==
    \* several sites
    {Scenario(rows, BaseSelectors) : rows \in SeqsUpTo(RunSites, MaxSites)}
    \* one site, a page of several items
    \cup {Scenario(<<Row(c, OkGet, page)>>, BaseSelectors) :
            c \in {"Generic Co", "Css Co", "Regex Co"},
            page \in SeqsUpTo(PageItems, MaxItems)}
    \* one site, one item
    \cup {Scenario(<<Row(c, OkGet, <<it>>)>>, BaseSelectors) :
            c \in {"Generic Co", "Css Co", "Regex Co"}, it \in ProbeItems}
    \* one site, a page that starts with a date text out of the calendar
    \cup {Scenario(<<Row(c, OkGet, page)>>, BaseSelectors) :
            c \in {"Generic Co", "Css Co"}, page \in InvalidPages}
    \* one site, any selector row
    \cup {Scenario(<<Row("Probe Co", OkGet, <<it>>)>>,
                   [BaseSelectors EXCEPT !["Probe Co"] = e]) :
            e \in AllSelectors,
            it \in {Item(TitleTag(TitlePlain),
                         DateTag(Render("dash", "cap", YMD(2024, 5, 16))), LinkRel)}}

Init ==
    /\ \E sc \in Scenarios :
           /\ companies = sc.companies
           /\ SITE_SELECTORS = sc.SITE_SELECTORS
    /\ \E dt \in Todays, tod \in TimesOfDay : today = DateTime(dt[1], dt[2], dt[3], tod)
    /\ days_within \in DaysWithin
    /\ pc = "row"
    /\ row = 1
    /\ i = 1
    /\ found_news = <<>>
    /\ skipped_sites_log = <<>>
    /\ output_file = NoFile
    /\ steps = <<>>

Spec == Init /\ [][Next]_vars

\* ------------------------------------------------------------- history

FoundMsgs == {"Found (Specific)", "Found (Generic)", "Found (Generic - date inferred)"}

LogReasons ==
    {"403 Forbidden", "HTTP Error", "SSL Error", "Timeout", "RequestException",
     "Other Exception", "Selector Config"}

BranchMsgs == {"Using specific selectors", "Using generic approach"}

\* the steps that appended a record, and those that wrote a log line
FoundSteps == SelectSeq(steps, LAMBDA e : e.msg \in FoundMsgs)

LogSteps == SelectSeq(steps, LAMBDA e : e.msg \in LogReasons)

\* how many steps with one of the messages msgs row r has taken
Count(r, msgs) == Len(SelectSeq(steps, LAMBDA e : e.row = r /\ e.msg \in msgs))

\* how many steps row r has taken on its item j
CountItem(r, j) == Len(SelectSeq(steps, LAMBDA e : e.row = r /\ e.i = j))

\* the rows whose iteration of the outer loop has ended
Ended == {r \in 1..Len(companies) : r < row}

\* record k of found_news was appended by step k of FoundSteps
FoundAligned ==
    /\ Len(FoundSteps) = Len(found_news)
    /\ \A k \in 1..Len(found_news) :
           found_news[k].company = companies[FoundSteps[k].row].company

\* line k of the log was written by step k of LogSteps
LogAligned ==
    /\ Len(LogSteps) = Len(skipped_sites_log)
    /\ \A k \in 1..Len(skipped_sites_log) :
           /\ skipped_sites_log[k].reason = LogSteps[k].msg
           /\ skipped_sites_log[k].company = companies[LogSteps[k].row].company
           /\ skipped_sites_log[k].url = companies[LogSteps[k].row].url

\* the records of found_news that row r appended, in order
RECURSIVE RecordsFrom(_, _)
RecordsFrom(r, k) ==
    IF k > Len(found_news) \/ k > Len(FoundSteps) THEN <<>>
    ELSE (IF FoundSteps[k].row = r THEN <<found_news[k]>> ELSE <<>>) \o RecordsFrom(r, k + 1)

RecordsOfRow(r) == RecordsFrom(r, 1)

\* the lines of the log that row r wrote, in order
RECURSIVE LinesFrom(_, _)
LinesFrom(r, k) ==
    IF k > Len(skipped_sites_log) \/ k > Len(LogSteps) THEN <<>>
    ELSE (IF LogSteps[k].row = r THEN <<skipped_sites_log[k]>> ELSE <<>>) \o LinesFrom(r, k + 1)

LinesOfRow(r) == LinesFrom(r, 1)

EntryOf(r) == SITE_SELECTORS[companies[r].company]

\* what one item of row r yields when it is judged on its own
ItemAlone(r, j) ==
    IF Resolve(EntryOf(r)) = "Specific"
    THEN SpecificItemResult(companies[r].news_items[j], EntryOf(r), companies[r].company,
                            companies[r].url, date_limit)
    ELSE GenericItemResult(companies[r].news_items[j], companies[r].company,
                           companies[r].url, date_limit, today)

\* what row r yields when it is the only row of the file: nothing unless its
\* page is fetched and extracted, else its items' records up to an exception
RECURSIVE AloneFrom(_, _)
AloneFrom(r, j) ==
    IF j > Len(companies[r].news_items) \/ ItemAlone(r, j).msg = "TypeError" THEN <<>>
    ELSE ItemAlone(r, j).append \o AloneFrom(r, j + 1)

RowAlone(r) ==
    IF Fetched(companies[r]) /\ Resolve(EntryOf(r)) \in {"Specific", "Generic"}
    THEN AloneFrom(r, 1)
    ELSE <<>>

\* ------------------------------------------------------------- claims

\* C1: every item whose date text parses to a calendar date D, under the
\* Specific or the Generic strategy, is accepted iff D >= the calendar date
\* of today - days_within, whatever the times of day.
C1_AcceptedIffOnOrAfterLowerBound ==
    \A k \in 1..Len(steps) :
        (steps[k].i > 0 /\ steps[k].parsed # NoDate)
        => ((steps[k].msg \in {"Found (Specific)", "Found (Generic)"})
            <=> DateGE(DateOf(steps[k].parsed), DateOf(date_limit)))

\* C2: whatever happens to a site (fetch error, skip directive, broken
\* selector row, exception during extraction), the run goes on to every
\* later site, and each site contributes the records it would contribute
\* as the only site of the file.
C2_SitesIndependent ==
    /\ FoundAligned
    /\ pc = "done" => row = Len(companies) + 1
    /\ \A r \in Ended :
           /\ Count(r, {"requests.get"}) = 1
           /\ RecordsOfRow(r) = RowAlone(r)

\* a run of two sites has ended: the first was logged as skipped, the
\* second contributed a record
C2_Witness ==
    /\ pc = "done" /\ Len(companies) = 2
    /\ Count(1, LogReasons) = 1
    /\ RecordsOfRow(2) # <<>>

\* the class of a failed fetch, as the fetch collaborator reports it
FailureClass(get) ==
    IF get.exc = "HTTPError" THEN (IF get.status = 403 THEN "forbidden" ELSE "http")
    ELSE IF get.exc = "SSLError" THEN "tls"
    ELSE IF get.exc \in {"Timeout", "ConnectTimeout", "ReadTimeout"} THEN "timeout"
    ELSE IF get.exc \in {"ConnectionError", "MissingSchema", "InvalidURL"} THEN "network"
    ELSE "unexpected"

FailedRows == {r \in Ended : ~Fetched(companies[r])}

\* C3: a site whose fetch fails writes exactly one log line, tagged by the
\* class of the error (two failures carry the same tag iff they are of the
\* same class), contributes no record, enters no branch, processes no item,
\* and is fetched once.
C3_FetchFailureLoggedOnce ==
    /\ FoundAligned /\ LogAligned
    /\ \A r \in FailedRows :
           /\ Len(LinesOfRow(r)) = 1
           /\ Count(r, {"requests.get"}) = 1
           /\ Count(r, BranchMsgs) = 0
           /\ \A j \in 1..Len(companies[r].news_items) : CountItem(r, j) = 0
           /\ RecordsOfRow(r) = <<>>
    /\ \A r1, r2 \in FailedRows :
           (LinesOfRow(r1)[1].reason = LinesOfRow(r2)[1].reason)
           <=> (FailureClass(companies[r1].get) = FailureClass(companies[r2].get))

\* two sites failed with a TLS error and another network error
C3_Witness ==
    /\ pc = "done" /\ Len(companies) = 2
    /\ FailureClass(companies[1].get) = "tls"
    /\ FailureClass(companies[2].get) = "network"
    /\ Len(skipped_sites_log) = 2

\* the four selector fields of a row are all non-empty
AllFour(e) ==
    /\ e.present
    /\ Truthy(e.list_selector) /\ Truthy(e.title_selector)
    /\ Truthy(e.date_selector) /\ Truthy(e.link_selector)

\* the list selector of a row carries the skip marker
HasMarker(e) ==
    e.present /\ e.list_selector.some /\ StartsWith(e.list_selector.v, SKIPPED)

FetchedRows == {r \in Ended : Fetched(companies[r])}

\* C4: for every fetched site exactly one of Specific, Generic, Skip is
\* chosen; Specific only with four non-empty fields and no skip marker; no
\* row, or a row whose fields are not all non-empty and has no marker, gives
\* Generic.
C4_ResolutionTotal ==
    \A r \in FetchedRows :
        /\ Count(r, {"Using specific selectors"}) + Count(r, {"Using generic approach"})
              + Count(r, {"Selector Config"}) = 1
        /\ Count(r, {"Using specific selectors"}) = 1
              => (AllFour(EntryOf(r)) /\ ~HasMarker(EntryOf(r)))
        /\ (~AllFour(EntryOf(r)) /\ ~HasMarker(EntryOf(r)))
              => Count(r, {"Using generic approach"}) = 1

ExtractedRows == {r \in Ended : Count(r, BranchMsgs) = 1}

\* the records the items of row r yield, each item judged on its own
RECURSIVE EachItemFrom(_, _)
EachItemFrom(r, j) ==
    IF j > Len(companies[r].news_items) THEN <<>>
    ELSE (IF ItemAlone(r, j).msg = "TypeError" THEN <<>> ELSE ItemAlone(r, j).append)
         \o EachItemFrom(r, j + 1)

\* C5: a failure confined to one item drops only that item: every item of
\* an extracted page is processed, and the page contributes the records of
\* its acceptable items.
C5_ItemFailureDropsOnlyThatItem ==
    \A r \in ExtractedRows :
        /\ \A j \in 1..Len(companies[r].news_items) : CountItem(r, j) = 1
        /\ RecordsOfRow(r) = EachItemFrom(r, 1)

\* the date text read from the element of the item a step is about, when
\* the date selector reads an element
ElementDateSteps ==
    {k \in 1..Len(steps) :
        /\ steps[k].i > 0
        /\ steps[k].msg \notin {"Missing title, date, or URL", "(no fields)", "TypeError"}
        /\ ~(Resolve(EntryOf(steps[k].row)) = "Specific"
             /\ StartsWith(EntryOf(steps[k].row).date_selector.v, REGEX_DATE))}

DateTextOf(k) == companies[steps[k].row].news_items[steps[k].i].date_tag.text

\* C6: a valid date written in any recognized format parses to that date,
\* under the Specific and under the Generic strategy.
C6_RecognizedFormatsParse ==
    \A k \in ElementDateSteps :
        \A t \in ProbeTexts :
            t.text = DateTextOf(k) => DateOf(steps[k].parsed) = t.date

\* C7: no record is appended with an absent title or an absent url.
C7_RecordFieldsPresent ==
    \A k \in 1..Len(found_news) :
        /\ found_news[k].url.some
        /\ found_news[k].title # NA

\* the date text the Specific branch reads from item j of row r
SpecificTextOf(r, j) == SpecificDateText(companies[r].news_items[j], EntryOf(r))

\* C8: under Specific, an item whose date text is absent, is the no-match
\* sentinel, or is parsed by no recognizer appends no record; a record is
\* inferred from title and URL only under Generic.
C8_NoInferenceUnderSpecific ==
    /\ FoundAligned
    /\ \A k \in 1..Len(FoundSteps) :
           Resolve(EntryOf(FoundSteps[k].row)) = "Specific"
           => /\ FoundSteps[k].msg = "Found (Specific)"
              /\ FoundSteps[k].parsed # NoDate
              /\ SpecificTextOf(FoundSteps[k].row, FoundSteps[k].i) \notin {NA, NA_REGEX_FAIL}
              /\ ParseSpecific(SpecificTextOf(FoundSteps[k].row, FoundSteps[k].i)) # NoDate

\* a Specific site has processed an item whose date text no recognizer
\* parses and whose title holds the digits the inference looks for (under
\* Generic the same item is accepted as date inferred), and appended nothing
C8_Witness ==
    /\ pc = "done" /\ Len(companies) = 1
    /\ Resolve(EntryOf(1)) = "Specific"
    /\ Len(companies[1].news_items) = 1
    /\ companies[1].news_items[1].title_tag.text = TitleDated
    /\ companies[1].news_items[1].date_tag.text = Soon
    /\ GenericItemResult(companies[1].news_items[1], companies[1].company,
                         companies[1].url, date_limit, today).append # <<>>
    /\ CountItem(1, 1) = 1
    /\ found_news = <<>>

MarkedRows == {r \in FetchedRows : HasMarker(EntryOf(r))}

\* C9: a fetched site whose list selector carries the skip marker, whatever
\* its other selector fields, writes one log line that holds the marker
\* text, contributes no record, and enters neither branch.
C9_SkipMarkerSkips ==
    /\ FoundAligned /\ LogAligned
    /\ \A r \in MarkedRows :
           /\ Len(LinesOfRow(r)) = 1
           /\ LinesOfRow(r)[1].reason = "Selector Config"
           /\ LinesOfRow(r)[1].detail = EntryOf(r).list_selector.v
           /\ StartsWith(LinesOfRow(r)[1].detail, SKIPPED)
           /\ RecordsOfRow(r) = <<>>
           /\ Count(r, BranchMsgs) = 0
           /\ \A j \in 1..Len(companies[r].news_items) : CountItem(r, j) = 0

\* a site with the marker and no title selector has been skipped
C9_Witness ==
    /\ pc = "done" /\ Len(companies) = 1
    /\ HasMarker(EntryOf(1))
    /\ ~EntryOf(1).title_selector.some
    /\ ~Truthy(EntryOf(1).link_selector)
    /\ Len(skipped_sites_log) = 1

\* every row that ended wrote one log line or completed its page, not both
C10_OneLinePerFailedSite ==
    /\ LogAligned
    /\ \A r \in Ended :
           /\ Len(LinesOfRow(r)) + Count(r, {"completed"}) = 1
           /\ Len(LinesOfRow(r)) = 1
                 <=> \/ ~Fetched(companies[r])
                     \/ HasMarker(EntryOf(r))
                     \/ Count(r, {"Other Exception"}) = 1

\* a step never removes or changes a line of the log
C10_AppendOnly ==
    /\ Len(skipped_sites_log') >= Len(skipped_sites_log)
    /\ SubSeq(skipped_sites_log', 1, Len(skipped_sites_log)) = skipped_sites_log

\* C10: the log is append-only and holds exactly one line for each site
\* that could not be processed (skip directive, fetch failure, failure while
\* processing its page), none for a site whose processing completed.
C10_SkipLogOnePerFailedSite ==
    [](C10_OneLinePerFailedSite) /\ [][C10_AppendOnly]_vars

\* a run of two sites ended with one line: the first site failed while its
\* page was processed, the second completed
C10_Witness ==
    /\ pc = "done" /\ Len(companies) = 2
    /\ Count(1, {"TypeError"}) = 1
    /\ Count(2, {"completed"}) = 1
    /\ Len(skipped_sites_log) = 1

\* the recognizers of a strategy in priority order: the six patterns and
\* the month-name fallback under Specific, the four patterns under Generic
Recognizers(strategy) ==
    IF strategy = "Specific" THEN 1..(Len(common_date_patterns) + 1) ELSE 1..Len(patterns)

\* recognizer n's pattern matches somewhere in the text
Matches(strategy, n, txt) ==
    IF strategy = "Generic" THEN Search(patterns[n], txt).ok
    ELSE IF n <= Len(common_date_patterns) THEN Search(common_date_patterns[n].regex, txt).ok
    ELSE Search(month_day_year, txt).ok

\* the calendar date the month-name pattern of Specific matches in the text
MonthNameDate(txt, m) ==
    IF ~m.ok THEN NoDate
    ELSE EnglishFromGroups(IntOf(Group(txt, m, 7)), MonthVal(Capitalize(Group(txt, m, 1))),
                           IntOf(Group(txt, m, 4)))

\* the valid date recognizer n matches in the text, NoDate when it does not
\* match or the matched components are no calendar date
ValidMatch(strategy, n, txt) ==
    IF strategy = "Generic" THEN TryGenericPattern(n, txt)
    ELSE IF n <= Len(common_date_patterns) THEN TryCommonPattern(common_date_patterns[n], txt)
    ELSE MonthNameDate(txt, Search(month_day_year, txt))

\* the recognizer that is tried first with a match fails calendar validation
FailsValidation(strategy, txt) ==
    \E n \in Recognizers(strategy) :
        /\ Matches(strategy, n, txt)
        /\ \A m \in 1..n : ValidMatch(strategy, m, txt) = NoDate

\* the date of the first recognizer, from n on, that matches a valid date
RECURSIVE FirstValidFrom(_, _, _)
FirstValidFrom(strategy, n, txt) ==
    IF n \notin Recognizers(strategy) THEN NoDate
    ELSE IF ValidMatch(strategy, n, txt) # NoDate THEN ValidMatch(strategy, n, txt)
    ELSE FirstValidFrom(strategy, n + 1, txt)

\* the steps on an item whose date text was handed to the recognizers
ParsedSteps ==
    {k \in 1..Len(steps) :
        /\ steps[k].i > 0
        /\ steps[k].msg \notin {"Missing title, date, or URL", "(no fields)"}}

StrategyOf(k) == Resolve(EntryOf(steps[k].row))

TextOf(k) ==
    IF StrategyOf(k) = "Specific" THEN SpecificTextOf(steps[k].row, steps[k].i)
    ELSE DateTextOf(k)

\* after a validation failure the item's date is that of the first later
\* recognizer that matches a valid date in the same text
C11_LaterRecognizerYields ==
    \A k \in ParsedSteps :
        FailsValidation(StrategyOf(k), TextOf(k))
        => steps[k].parsed = FirstValidFrom(StrategyOf(k), 1, TextOf(k))

\* the item of a validation failure raises nothing: the items after it are
\* processed
C11_NoErrorEscapes ==
    \A k \in ParsedSteps :
        FailsValidation(StrategyOf(k), TextOf(k)) => steps[k].msg # "TypeError"

\* C11: when a recognizer's pattern matches the date text but the matched
\* components fail calendar validation, the recognizer counts as a
\* non-match: a later recognizer that matches a valid date in the same text
\* still yields that date, and no error escapes the item.
C11_ValidationFailureIsNonMatch == C11_LaterRecognizerYields /\ C11_NoErrorEscapes

\* the calendar dates written in a file name <windowStart>-<windowEnd>.csv
DateIn(name, at) ==
    <<IntOf(SubSeq(name, at, at + 3)), IntOf(SubSeq(name, at + 5, at + 6)),
      IntOf(SubSeq(name, at + 8, at + 9))>>

WindowStart(name) == DateIn(name, 1)

WindowEnd(name) == DateIn(name, 12)

\* the steps that accepted an item on its parsed date
AcceptedOnDate ==
    {k \in 1..Len(steps) : steps[k].msg \in {"Found (Specific)", "Found (Generic)"}}

\* C12: the window start written into the output file name is the calendar
\* date of the lower bound today - days_within the window test uses, the
\* window end is today, and every record accepted on a parsed date is dated
\* on or after the file name's window start.
C12_FilenameWindowIsFilterWindow ==
    output_file.written
    => /\ WindowStart(output_file.name) = DateOf(date_limit)
       /\ WindowEnd(output_file.name) = DateOf(today)
       /\ \A k \in AcceptedOnDate :
              DateGE(DateOf(steps[k].parsed), WindowStart(output_file.name))


====
